---- MODULE Spec2Model ----
(***************************************************************************)
(* A model of the HCP interaction agent: the LangGraph pipeline            *)
(* router -> tool node -> formatter of backend/app/agents/hcp_agent.py,    *)
(* the five tools of backend/app/agents/tools and the JSON extraction of   *)
(* backend/app/utils/llm_utils.py.                                         *)
(*                                                                         *)
(* Python values are TLA+ strings: None is "None", True and False are      *)
(* "True" and "False", the empty list is "[]", a list of strings is        *)
(* written as Python prints it ("['samples']"), a number as its digits.    *)
(* A dict is a function from its keys to such values.  The provider's      *)
(* answer to the router, which the code matches character by character,    *)
(* is a sequence of one-character strings; Chars gives the characters of   *)
(* a keyword and of a user's message.                                      *)
(***************************************************************************)
EXTENDS Integers, Sequences, FiniteSets, TLC

VARIABLES
  pc,         \* the node of the graph to run next; "idle", "END" or "done" outside it
  state,      \* the AgentState of the invocation in progress
  ret,        \* <<the dict process returned>>, or <<>> while it runs
  ran,        \* the nodes run by this invocation, in order
  today,      \* datetime.now(), as a day of January 2026
  resp,       \* <<the provider's response to the latest call>>, or <<>>
  llm_calls,  \* the provider calls made by this invocation
  exc,        \* <<the text of the exception graph.invoke raised>>, or <<>>
  store,      \* the interactions table: the stored row of every id in use
  http,       \* <<the answer to the latest HTTP request>>, or <<>>
  ctx         \* the contexts of the invocations of process that run interleaved

vars == <<pc, state, ret, ran, today, resp, llm_calls, exc, store, http, ctx>>

\* the state outside one invocation of process: the database, the HTTP
\* answer and the interleaved invocations
service == <<store, http, ctx>>

\* the state of the invocation of process that runs on its own
invocation == <<pc, state, ret, ran, resp, llm_calls, exc>>

(***************************************************************************)
(* Bounds of the model.                                                    *)
(***************************************************************************)
MaxAnswerWords == 2
MaxPairs == 2
MaxDay == 2
MaxId == 2

(***************************************************************************)
(* Python values and dicts.                                                *)
(***************************************************************************)
None == "None"
PyTrue == "True"
PyFalse == "False"
EmptyList == "[]"

Falsy == {None, "", EmptyList, "{}", PyFalse, "0"}

Truthy(v) == v \notin Falsy

EmptyDict == <<>>

Get(d, k, default) == IF k \in DOMAIN d THEN d[k] ELSE default

Merge(a, b) ==
  [k \in (DOMAIN a) \cup (DOMAIN b) |-> IF k \in DOMAIN b THEN b[k] ELSE a[k]]

Put(d, k, v) == Merge(d, k :> v)

(***************************************************************************)
(* Character texts: str.lower, str.strip and the `in` of two strings.      *)
(***************************************************************************)
UpperCase ==
  <<"A", "B", "C", "D", "E", "F", "G", "H", "I", "J", "K", "L", "M",
    "N", "O", "P", "Q", "R", "S", "T", "U", "V", "W", "X", "Y", "Z">>

LowerCase ==
  <<"a", "b", "c", "d", "e", "f", "g", "h", "i", "j", "k", "l", "m",
    "n", "o", "p", "q", "r", "s", "t", "u", "v", "w", "x", "y", "z">>

LowerChar(c) ==
  IF \E i \in 1..Len(UpperCase) : UpperCase[i] = c
  THEN LowerCase[CHOOSE i \in 1..Len(UpperCase) : UpperCase[i] = c]
  ELSE c

Lower(cs) == [i \in 1..Len(cs) |-> LowerChar(cs[i])]

IsSpace(c) == c \in {" ", "\n", "\t"}

RECURSIVE LStrip(_)
LStrip(cs) ==
  IF cs # <<>> /\ IsSpace(Head(cs)) THEN LStrip(Tail(cs)) ELSE cs

RECURSIVE RStrip(_)
RStrip(cs) ==
  IF cs # <<>> /\ IsSpace(cs[Len(cs)])
  THEN RStrip(SubSeq(cs, 1, Len(cs) - 1))
  ELSE cs

Strip(cs) == RStrip(LStrip(cs))

Contains(needle, hay) ==
  \E i \in 1..(Len(hay) - Len(needle) + 1) :
    SubSeq(hay, i, i + Len(needle) - 1) = needle

(***************************************************************************)
(* The characters of the texts the code matches by containment: the        *)
(* keywords of the router, the words of the provider's answers and the     *)
(* user's messages.                                                        *)
(***************************************************************************)
Chars(w) ==
  CASE w = "log" -> <<"l", "o", "g">>
    [] w = "edit" -> <<"e", "d", "i", "t">>
    [] w = "update" -> <<"u", "p", "d", "a", "t", "e">>
    [] w = "change" -> <<"c", "h", "a", "n", "g", "e">>
    [] w = "schedule" -> <<"s", "c", "h", "e", "d", "u", "l", "e">>
    [] w = "follow" -> <<"f", "o", "l", "l", "o", "w">>
    [] w = "insight" -> <<"i", "n", "s", "i", "g", "h", "t">>
    [] w = "analyz" -> <<"a", "n", "a", "l", "y", "z">>
    [] w = "opportun" -> <<"o", "p", "p", "o", "r", "t", "u", "n">>
    [] w = "validat" -> <<"v", "a", "l", "i", "d", "a", "t">>
    [] w = "verify" -> <<"v", "e", "r", "i", "f", "y">>
    [] w = "check" -> <<"c", "h", "e", "c", "k">>
    [] w = "insights" -> <<"i", "n", "s", "i", "g", "h", "t", "s">>
    [] w = "analyze" -> <<"a", "n", "a", "l", "y", "z", "e">>
    [] w = "opportunity" ->
         <<"o", "p", "p", "o", "r", "t", "u", "n", "i", "t", "y">>
    [] w = "validate" -> <<"v", "a", "l", "i", "d", "a", "t", "e">>
    [] w = "unsure" -> <<"u", "n", "s", "u", "r", "e">>
    [] w = " Schedule\n" ->
         <<" ", "S", "c", "h", "e", "d", "u", "l", "e", "\n">>
    [] w = "schedule a follow-up" ->
         <<"s", "c", "h", "e", "d", "u", "l", "e", " ", "a", " ", "f", "o",
           "l", "l", "o", "w", "-", "u", "p">>
    [] w = "please change the date and schedule" ->
         <<"p", "l", "e", "a", "s", "e", " ", "c", "h", "a", "n", "g", "e",
           " ", "t", "h", "e", " ", "d", "a", "t", "e", " ", "a", "n", "d",
           " ", "s", "c", "h", "e", "d", "u", "l", "e">>
    [] w = "verify dr smith" ->
         <<"v", "e", "r", "i", "f", "y", " ", "d", "r", " ", "s", "m", "i",
           "t", "h">>
    [] w = "hello" -> <<"h", "e", "l", "l", "o">>
    [] w = "   " -> <<" ", " ", " ">>
    [] w = "Positive" -> <<"P", "o", "s", "i", "t", "i", "v", "e">>
    [] w = "negative" -> <<"n", "e", "g", "a", "t", "i", "v", "e">>
    [] w = "NEUTRAL" -> <<"N", "E", "U", "T", "R", "A", "L">>
    [] w = "Mixed" -> <<"M", "i", "x", "e", "d">>
    [] OTHER -> <<w>>

(***************************************************************************)
(* The keywords of the router's normalisation, in the order of its elif    *)
(* chain.                                                                  *)
(***************************************************************************)
LogKeys == {Chars("log")}
EditKeys == {Chars("edit"), Chars("update"), Chars("change")}
ScheduleKeys == {Chars("schedule"), Chars("follow")}
InsightsKeys == {Chars("insight"), Chars("analyz"), Chars("opportun")}
ValidateKeys == {Chars("validat"), Chars("verify"), Chars("check")}

HasAny(keys, text) == \E k \in keys : Contains(k, text)

\* a faulty normalisation: schedule is tested before edit
NormalizeIntent_SwapEditSchedule(intent, has_existing_data) ==
  IF HasAny(LogKeys, intent) THEN "log"
  ELSE IF HasAny(ScheduleKeys, intent) THEN "schedule"
  ELSE IF HasAny(EditKeys, intent) THEN "edit"
  ELSE IF HasAny(InsightsKeys, intent) THEN "insights"
  ELSE IF HasAny(ValidateKeys, intent) THEN "validate"
  ELSE IF has_existing_data THEN "edit" ELSE "log"

\* a faulty normalisation: schedule only for an existing record
NormalizeIntent_ScheduleNeedsRecord(intent, has_existing_data) ==
  IF HasAny(LogKeys, intent) THEN "log"
  ELSE IF HasAny(EditKeys, intent) THEN "edit"
  ELSE IF HasAny(ScheduleKeys, intent) /\ has_existing_data THEN "schedule"
  ELSE IF HasAny(InsightsKeys, intent) THEN "insights"
  ELSE IF HasAny(ValidateKeys, intent) THEN "validate"
  ELSE IF has_existing_data THEN "edit" ELSE "log"

NormalizeIntent(intent, has_existing_data) ==
  IF HasAny(LogKeys, intent) THEN "log"
  ELSE IF HasAny(EditKeys, intent) THEN "edit"
  ELSE IF HasAny(ScheduleKeys, intent) THEN "schedule"
  ELSE IF HasAny(InsightsKeys, intent) THEN "insights"
  ELSE IF HasAny(ValidateKeys, intent) THEN "validate"
  ELSE IF has_existing_data THEN "edit" ELSE "log"

(***************************************************************************)
(* The completion provider.  A call either raises (fail, with the text of  *)
(* the provider's exception) or returns a text.  call_llm wraps every      *)
(* exception of the provider.                                              *)
(***************************************************************************)
CallLlmError(e) == "LLM API call failed: " \o e

ProviderErrors == {"timeout"}

(***************************************************************************)
(* The text of a completion, as the tokens extract_json tells apart: the   *)
(* braces of a JSON object, its "key": value members, a complete JSON      *)
(* value that is not an object, a code fence, the word json, whitespace    *)
(* and prose.                                                              *)
(***************************************************************************)
Tok(t) == [t |-> t, k |-> "", v |-> ""]
LBrace == Tok("{")
RBrace == Tok("}")
Fence == Tok("fence")
JsonTag == Tok("json")
Ws == Tok(" ")
Prose == Tok("Here is the data")
Pair(k, v) == [t |-> "pair", k |-> k, v |-> v]
Val(kind, v) == [t |-> "val", k |-> kind, v |-> v]

TokText(tok) ==
  CASE tok.t = "pair" -> "\"" \o tok.k \o "\": " \o tok.v \o ","
    [] tok.t = "val" -> tok.v
    [] OTHER -> tok.t

RECURSIVE Render(_)
Render(toks) ==
  IF toks = <<>> THEN "" ELSE TokText(Head(toks)) \o Render(Tail(toks))

RECURSIVE LStripToks(_)
LStripToks(toks) ==
  IF toks # <<>> /\ Head(toks) = Ws THEN LStripToks(Tail(toks)) ELSE toks

RECURSIVE RStripToks(_)
RStripToks(toks) ==
  IF toks # <<>> /\ toks[Len(toks)] = Ws
  THEN RStripToks(SubSeq(toks, 1, Len(toks) - 1))
  ELSE toks

StripToks(toks) == RStripToks(LStripToks(toks))

\* the dict of the members of an object: a later member overrides an earlier
PutPair(d, tok) == IF tok.t = "pair" THEN Put(d, tok.k, tok.v) ELSE d

RECURSIVE DictOfPairs(_)
DictOfPairs(toks) ==
  IF toks = <<>> THEN EmptyDict
  ELSE PutPair(DictOfPairs(SubSeq(toks, 1, Len(toks) - 1)), toks[Len(toks)])

(***************************************************************************)
(* What a call returns or raises: kind is "dict" (d is the dict), the kind *)
(* of a JSON value that is not an object (v is the value), or "raise" (v   *)
(* is the text of the exception).                                          *)
(***************************************************************************)
Returned(kind, d, v) == [kind |-> kind, d |-> d, v |-> v]
Raised(text) == Returned("raise", EmptyDict, text)
DecodeError == Raised("JSONDecodeError")

\* json.loads of a text without its surrounding whitespace
LoadsStripped(s) ==
  IF Len(s) = 1 /\ s[1].t = "val" THEN Returned(s[1].k, EmptyDict, s[1].v)
  ELSE IF /\ Len(s) >= 2
          /\ s[1] = LBrace
          /\ s[Len(s)] = RBrace
          /\ \A i \in 2..(Len(s) - 1) : s[i].t \in {"pair", " "}
       THEN Returned("dict", DictOfPairs(SubSeq(s, 2, Len(s) - 1)), "")
       ELSE DecodeError

JsonLoads(text) == LoadsStripped(StripToks(text))

Least(hits) == IF hits = {} THEN -1 ELSE CHOOSE i \in hits : \A j \in hits : i <= j

Greatest(hits) == IF hits = {} THEN -1 ELSE CHOOSE i \in hits : \A j \in hits : i >= j

Find(tok, text, from) == Least({i \in from..Len(text) : text[i] = tok})

RFind(tok, text) == Greatest({i \in 1..Len(text) : text[i] = tok})

FindJsonFence(text) ==
  Least({i \in 1..(Len(text) - 1) : text[i] = Fence /\ text[i + 1] = JsonTag})

RECURSIVE SplitFence(_)
SplitAt(text, i) ==
  IF i = -1 THEN <<text>>
  ELSE <<SubSeq(text, 1, i - 1)>> \o SplitFence(SubSeq(text, i + 1, Len(text)))

SplitFence(text) == SplitAt(text, Find(Fence, text, 1))

ParseFailure(text) ==
  Returned("dict",
           ("error" :> "Failed to parse JSON") @@ ("raw_response" :> Render(text)),
           "")

\* the except of extract_json: a parse that raised becomes the sentinel
OrFailure(got, text) == IF got.kind = "raise" THEN ParseFailure(text) ELSE got

\* the substring from the first { to the last }
BraceSpanAt(text, start, end) ==
  IF start # -1 /\ end > start
  THEN OrFailure(JsonLoads(SubSeq(text, start, end - 1)), text)
  ELSE ParseFailure(text)

BraceSpan(text) == BraceSpanAt(text, Find(LBrace, text, 1), RFind(RBrace, text) + 1)

\* the parts between fences that start with { and end with }, in order
RECURSIVE FirstBlock(_)
BlockGot(got, rest) == IF got.kind # "raise" THEN got ELSE FirstBlock(rest)

BlockOr(part, rest) ==
  IF part # <<>> /\ part[1] = LBrace /\ part[Len(part)] = RBrace
  THEN BlockGot(JsonLoads(part), rest)
  ELSE FirstBlock(rest)

FirstBlock(parts) ==
  IF parts = <<>> THEN DecodeError ELSE BlockOr(StripToks(Head(parts)), Tail(parts))

OrBraceSpan(got, text) == IF got.kind # "raise" THEN got ELSE BraceSpan(text)

AnyFence(text) ==
  OrBraceSpan(IF Find(Fence, text, 1) # -1 THEN FirstBlock(SplitFence(text))
              ELSE DecodeError,
              text)

\* the block between the json fence at tag and the next fence at end
TaggedBlock(text, tag, end) ==
  IF tag # -1 /\ end # -1
  THEN OrFailure(JsonLoads(SubSeq(text, tag + 2, end - 1)), text)
  ELSE AnyFence(text)

TaggedFrom(text, tag) ==
  TaggedBlock(text, tag, IF tag = -1 THEN -1 ELSE Find(Fence, text, tag + 2))

Fallbacks(text) == TaggedFrom(text, FindJsonFence(text))

(***************************************************************************)
(* A provider response: fail with the provider's error, or a text.         *)
(***************************************************************************)
Failure(e) == [fail |-> TRUE, err |-> e, text |-> <<>>]

DirectOr(direct, text) == IF direct.kind # "raise" THEN direct ELSE Fallbacks(text)

ExtractJson(r) ==
  IF r.fail THEN Raised(CallLlmError(r.err)) ELSE DirectOr(JsonLoads(r.text), r.text)

(***************************************************************************)
(* Python operations of the tools on the values a completion can carry.    *)
(***************************************************************************)
PyType(kind) ==
  CASE kind = "num" -> "int"
    [] kind = "null" -> "NoneType"
    [] OTHER -> kind

\* result['success'] = True on a JSON value that is not an object
ItemAssignError(kind) ==
  IF kind = "list" THEN "list indices must be integers or slices, not str"
  ELSE "'" \o PyType(kind) \o "' object does not support item assignment"

\* if not result.get(k): result[k] = defaults[k], for every key of defaults
WithDefaults(d, defaults) ==
  [k \in (DOMAIN d) \cup (DOMAIN defaults) |->
     IF k \in DOMAIN defaults /\ ~Truthy(Get(d, k, None)) THEN defaults[k] ELSE d[k]]

\* if k not in result: result[k] = defaults[k], for every key of defaults
WithMissing(d, defaults) == Merge(defaults, d)

\* the items of a list of strings (the lists this model uses), of a string
Items(v) ==
  CASE v = "[]" -> <<>>
    [] v = "" -> <<>>
    [] v = "['x']" -> <<"x">>
    [] v = "['samples']" -> <<"samples">>
    [] v = "['tp']" -> <<"tp">>
    [] v = "['Follow up with HCP']" -> <<"Follow up with HCP">>
    [] v = "['Follow-up discussion', 'Address questions', 'Next steps']"
         -> <<"Follow-up discussion", "Address questions", "Next steps">>
    [] OTHER -> <<v>>

\* a number, a bool or None is not iterable: join and for raise TypeError
CanIterate(v) == v \notin {"7", "0", None, PyTrue, PyFalse}

NotIterableError == "can only join an iterable"

\* [... for o in v] on a number
ForLoopError == "'int' object is not iterable"

RECURSIVE JoinItems(_, _)
JoinItems(sep, items) ==
  IF items = <<>> THEN ""
  ELSE IF Len(items) = 1 THEN items[1]
  ELSE items[1] \o sep \o JoinItems(sep, Tail(items))

Join(sep, v) == JoinItems(sep, Items(v))

Prefixed(prefix, items) == [i \in 1..Len(items) |-> prefix \o items[i]]

\* datetime.now().strftime('%Y-%m-%d') on day n of January 2026
Digit(n) ==
  CASE n = 0 -> "0" [] n = 1 -> "1" [] n = 2 -> "2" [] n = 3 -> "3"
    [] n = 4 -> "4" [] n = 5 -> "5" [] n = 6 -> "6" [] n = 7 -> "7"
    [] n = 8 -> "8" [] OTHER -> "9"

Strftime(n) == "2026-01-" \o Digit(n \div 10) \o Digit(n % 10)

DaysInWeek == 7

(***************************************************************************)
(* Tool #1: log_interaction.  Each tool is its body applied to what        *)
(* llm.extract_json returned or raised.                                    *)
(***************************************************************************)
LogFailure(text, day) ==
  [success |-> PyFalse, error |-> text, hcp_name |-> None, date |-> Strftime(day),
   sentiment |-> "Neutral", materials_shared |-> EmptyList,
   discussion_summary |-> None, products_discussed |-> EmptyList]

LogDefaults(day) ==
  [hcp_name |-> None, date |-> Strftime(day), sentiment |-> "Neutral",
   materials_shared |-> EmptyList, discussion_summary |-> None,
   products_discussed |-> EmptyList]

LogResult(x, day) ==
  IF x.kind = "raise" THEN LogFailure(x.v, day)
  ELSE IF x.kind # "dict" THEN LogFailure(ItemAssignError(x.kind), day)
  ELSE WithDefaults(Put(x.d, "success", PyTrue), LogDefaults(day))

log_interaction(user_message, r, day) == LogResult(ExtractJson(r), day)

(***************************************************************************)
(* Tool #2: edit_interaction.                                              *)
(***************************************************************************)
EditFailure(text, current_data) ==
  Merge([success |-> PyFalse, error |-> text], current_data)

\* 'error' in changes, for a JSON value that is not an object: an item of a
\* list, a substring of a string (of the strings of this model, of "error")
ErrorIn(x) ==
  CASE x.kind = "list" -> \E i \in 1..Len(Items(x.v)) : Items(x.v)[i] = "error"
    [] x.kind = "str" -> x.v \in {"error"}
    [] OTHER -> FALSE

\* faulty merges: the current data dropped, the current data overriding
EditMerge_ChangesOnly(current_data, changes) == Put(changes, "success", PyTrue)

EditMerge_CurrentWins(current_data, changes) ==
  Put(Merge(changes, current_data), "success", PyTrue)

EditMerge(current_data, changes) == Put(Merge(current_data, changes), "success", PyTrue)

\* a faulty edit: the test 'error' in changes is missing
EditResult_KeepSentinel(current_data, x) ==
  IF x.kind = "raise" THEN EditFailure(x.v, current_data)
  ELSE IF x.kind = "dict" THEN EditMerge(current_data, x.d)
  ELSE EditFailure("'" \o PyType(x.kind) \o "' object is not a mapping", current_data)

EditResult(current_data, x) ==
  IF x.kind = "raise" THEN EditFailure(x.v, current_data)
  ELSE IF x.kind = "dict"
       THEN IF "error" \in DOMAIN x.d \/ x.d = EmptyDict
            THEN EditMerge(current_data, EmptyDict)
            ELSE EditMerge(current_data, x.d)
  ELSE IF x.kind \in {"num", "null", "bool"}
       THEN EditFailure("argument of type '" \o PyType(x.kind) \o "' is not iterable",
                        current_data)
  ELSE IF ErrorIn(x) \/ ~Truthy(x.v)
       THEN EditMerge(current_data, EmptyDict)
       ELSE EditFailure("'" \o PyType(x.kind) \o "' object is not a mapping",
                        current_data)

edit_interaction(current_data, user_message, r) == EditResult(current_data, ExtractJson(r))

(***************************************************************************)
(* Tool #3: schedule_followup.                                             *)
(***************************************************************************)
DefaultTalkingPoints == "['Follow-up discussion', 'Address questions', 'Next steps']"

ScheduleFailure(text, hcp_name, day) ==
  [success |-> PyFalse, error |-> text, hcp_name |-> hcp_name,
   follow_up_date |-> Strftime(day + DaysInWeek), talking_points |-> EmptyList,
   preparation_notes |-> None]

ScheduleDefaults(day) ==
  [follow_up_date |-> Strftime(day + DaysInWeek),
   talking_points |-> DefaultTalkingPoints,
   preparation_notes |-> "Review previous interaction notes"]

ScheduleResult(hcp_name, x, day) ==
  IF x.kind = "raise" THEN ScheduleFailure(x.v, hcp_name, day)
  ELSE IF x.kind # "dict" THEN ScheduleFailure(ItemAssignError(x.kind), hcp_name, day)
  ELSE WithDefaults(Put(Put(x.d, "success", PyTrue), "hcp_name", hcp_name),
                    ScheduleDefaults(day))

schedule_followup(hcp_name, user_message, r, day) ==
  ScheduleResult(hcp_name, ExtractJson(r), day)

(***************************************************************************)
(* Tool #4: extract_insights.  The prompt joins products_discussed and     *)
(* materials_shared before the try: PromptRaises says that this raises.    *)
(***************************************************************************)
InsightsFailure(text) ==
  [success |-> PyFalse, error |-> text, opportunities |-> EmptyList,
   concerns |-> EmptyList, recommended_actions |-> EmptyList,
   priority_level |-> "Medium"]

\* a faulty fallback: a Negative sentiment is not told from the others
PriorityOf_NoLow(sentiment) == IF sentiment = "Positive" THEN "High" ELSE "Medium"

PriorityOf(sentiment) ==
  IF sentiment = "Positive" THEN "High"
  ELSE IF sentiment = "Negative" THEN "Low"
  ELSE "Medium"

InsightsDefaults(sentiment) ==
  [opportunities |-> EmptyList, concerns |-> EmptyList,
   recommended_actions |-> "['Follow up with HCP']",
   priority_level |-> PriorityOf(sentiment)]

PromptRaises(interaction_data) ==
  \E k \in {"products_discussed", "materials_shared"} :
    /\ Truthy(Get(interaction_data, k, EmptyList))
    /\ ~CanIterate(Get(interaction_data, k, EmptyList))

InsightsResult(interaction_data, x) ==
  IF x.kind = "raise" THEN InsightsFailure(x.v)
  ELSE IF x.kind # "dict" THEN InsightsFailure(ItemAssignError(x.kind))
  ELSE WithDefaults(Put(x.d, "success", PyTrue),
                    InsightsDefaults(Get(interaction_data, "sentiment", "Neutral")))

extract_insights(interaction_data, r) == InsightsResult(interaction_data, ExtractJson(r))

(***************************************************************************)
(* Tool #5: validate_hcp.                                                  *)
(***************************************************************************)
\* a faulty emptiness test: no strip, so only the empty name is blank
BlankName_NoStrip(hcp_name) == ~Truthy(hcp_name)

\* not hcp_name or len(hcp_name.strip()) == 0
BlankName(hcp_name) == ~Truthy(hcp_name) \/ hcp_name \in {" ", "   "}

\* str.title() of the names and messages of this model
Title(name) ==
  CASE name = "dr smith" -> "Dr Smith"
    [] name = "verify dr smith" -> "Verify Dr Smith"
    [] name = "schedule a follow-up" -> "Schedule A Follow-Up"
    [] name = "please change the date and schedule"
         -> "Please Change The Date And Schedule"
    [] name = "hello" -> "Hello"
    [] OTHER -> name

ValidateEmpty ==
  [success |-> PyFalse, error |-> "HCP name is empty", is_valid |-> PyFalse,
   formatted_name |-> None, requires_verification |-> PyTrue]

ValidateFailure(text, hcp_name) ==
  [success |-> PyFalse, error |-> text, hcp_name |-> hcp_name, is_valid |-> None,
   formatted_name |-> hcp_name, likely_specialty |-> "Unknown",
   validation_notes |-> "Error: " \o text, requires_verification |-> PyTrue]

ValidateDefaults(hcp_name) ==
  [formatted_name |-> Title(hcp_name), likely_specialty |-> "General Practice",
   validation_notes |-> "Name validated"]

ValidateMissing == [is_valid |-> PyTrue, requires_verification |-> PyFalse]

ValidateResult(hcp_name, x) ==
  IF x.kind = "raise" THEN ValidateFailure(x.v, hcp_name)
  ELSE IF x.kind # "dict" THEN ValidateFailure(ItemAssignError(x.kind), hcp_name)
  ELSE WithMissing(
         WithDefaults(Put(Put(x.d, "success", PyTrue), "hcp_name", hcp_name),
                      ValidateDefaults(hcp_name)),
         ValidateMissing)

validate_hcp(hcp_name, r) ==
  IF BlankName(hcp_name) THEN ValidateEmpty ELSE ValidateResult(hcp_name, ExtractJson(r))

(***************************************************************************)
(* AgentState and the nodes of the graph.  recorded is a history field: the *)
(* texts the nodes assigned to state["error"], in order.  Each node is its *)
(* body applied to the result of its tool.                                 *)
(***************************************************************************)
InitialState(user_input, current_form_data) ==
  [user_input |-> user_input, current_form_data |-> current_form_data,
   form_data |-> EmptyDict, tool_results |-> EmptyDict, intent |-> "",
   chat_response |-> "", error |-> "", recorded |-> <<>>]

SetError(st, text) == [st EXCEPT !.error = text, !.recorded = Append(@, text)]

\* a faulty test of the existing data: any non-empty record counts
HasExistingData_NonEmpty(st) == st.current_form_data # EmptyDict

HasExistingData(st) ==
  st.current_form_data # EmptyDict /\ Truthy(Get(st.current_form_data, "hcp_name", None))

RouterNode(st, r) ==
  IF r.fail
  THEN SetError([st EXCEPT !.intent = "error"], CallLlmError(r.err))
  ELSE [st EXCEPT !.intent = NormalizeIntent(Lower(Strip(r.text)), HasExistingData(st))]

RecordFields ==
  {"hcp_name", "date", "sentiment", "materials_shared", "discussion_summary",
   "products_discussed", "follow_up_date", "key_insights"}

ListFields == {"materials_shared", "products_discussed"}

LogFormData(result) ==
  [k \in RecordFields |-> Get(result, k, IF k \in ListFields THEN EmptyList ELSE None)]

\* a faulty success test: a result that carries an error key has not succeeded
Succeeded_NoErrorKey(result) ==
  Truthy(Get(result, "success", None)) /\ "error" \notin DOMAIN result

Succeeded(result) == Truthy(Get(result, "success", None))

\* state["error"] = result.get("error", default), after state["tool_results"] = result
ToolError(st, result, default) ==
  SetError([st EXCEPT !.tool_results = result], Get(result, "error", default))

ToolDone(st, result, form_data) ==
  [st EXCEPT !.tool_results = result, !.form_data = form_data]

\* a faulty log node: the new record is laid over the current one
LogNode_OverCurrent(st, result) ==
  IF Succeeded(result)
  THEN ToolDone(st, result, Merge(st.current_form_data, LogFormData(result)))
  ELSE ToolError(st, result, "Unknown error")

LogNode(st, result) ==
  IF Succeeded(result) THEN ToolDone(st, result, LogFormData(result))
  ELSE ToolError(st, result, "Unknown error")

LogInteractionNode(st, r, day) == LogNode(st, log_interaction(st.user_input, r, day))

EditNode(st, result) ==
  IF Succeeded(result) THEN ToolDone(st, result, result)
  ELSE [ToolError(st, result, "Unknown error") EXCEPT !.form_data = st.current_form_data]

EditInteractionNode(st, r) ==
  EditNode(st, edit_interaction(st.current_form_data, st.user_input, r))

FollowUpInsights(talking_points, prep_notes) ==
  "Follow-up planned:\n- " \o Join("\n", talking_points)
    \o "\n\nPreparation: " \o prep_notes

\* a faulty schedule node: the current record is not copied
ScheduleNode_NoCopy(st, result) ==
  IF ~Succeeded(result) THEN ToolError(st, result, "Unknown error")
  ELSE IF ~CanIterate(Get(result, "talking_points", EmptyList))
       THEN SetError([st EXCEPT !.tool_results = result], NotIterableError)
  ELSE ToolDone(st, result,
         Put(Put(EmptyDict, "follow_up_date", Get(result, "follow_up_date", None)),
             "key_insights",
             FollowUpInsights(Get(result, "talking_points", EmptyList),
                              Get(result, "preparation_notes", ""))))

ScheduleNode(st, result) ==
  IF ~Succeeded(result) THEN ToolError(st, result, "Unknown error")
  ELSE IF ~CanIterate(Get(result, "talking_points", EmptyList))
       THEN SetError([st EXCEPT !.tool_results = result], NotIterableError)
  ELSE ToolDone(st, result,
         Put(Put(st.current_form_data,
                 "follow_up_date", Get(result, "follow_up_date", None)),
             "key_insights",
             FollowUpInsights(Get(result, "talking_points", EmptyList),
                              Get(result, "preparation_notes", ""))))

ScheduleFollowupNode(st, r, day) ==
  ScheduleNode(st, schedule_followup(Get(st.current_form_data, "hcp_name", "HCP"),
                                     st.user_input, r, day))

Section(title, v) ==
  IF Truthy(v) THEN title \o ":\n- " \o JoinItems("\n", Prefixed("- ", Items(v)))
  ELSE ""

Gap(v) == IF Truthy(v) THEN "\n\n" ELSE ""

InsightsText(result) ==
  "Priority: " \o Get(result, "priority_level", "Medium") \o "\n\n"
    \o Section("Opportunities", Get(result, "opportunities", EmptyList))
    \o Gap(Get(result, "opportunities", EmptyList))
    \o Section("Concerns", Get(result, "concerns", EmptyList))
    \o Gap(Get(result, "concerns", EmptyList))
    \o Section("Recommended Actions", Get(result, "recommended_actions", EmptyList))

\* a faulty insights node: the composite is appended to the old key_insights
InsightsNode_Append(st, result) ==
  IF ~Succeeded(result) THEN ToolError(st, result, "Unknown error")
  ELSE ToolDone(st, result,
         Put(st.current_form_data, "key_insights",
             (IF Truthy(Get(st.current_form_data, "key_insights", None))
              THEN st.current_form_data["key_insights"] \o "\n\n"
              ELSE "")
               \o InsightsText(result)))

InsightsNode(st, result) ==
  IF ~Succeeded(result) THEN ToolError(st, result, "Unknown error")
  ELSE IF \E k \in {"opportunities", "concerns", "recommended_actions"} :
            Truthy(Get(result, k, EmptyList)) /\ ~CanIterate(Get(result, k, EmptyList))
       THEN SetError([st EXCEPT !.tool_results = result], ForLoopError)
  ELSE ToolDone(st, result,
                Put(st.current_form_data, "key_insights", InsightsText(result)))

ExtractInsightsNode(st, r) ==
  IF PromptRaises(st.current_form_data) THEN SetError(st, NotIterableError)
  ELSE InsightsNode(st, extract_insights(st.current_form_data, r))

ValidationInsights(specialty, notes) ==
  "HCP Validation:\n- Specialty: " \o specialty \o "\n- Notes: " \o notes

\* the name of the record, or the user's message when the record has none
NameOrInput(hcp_name, user_input) == IF Truthy(hcp_name) THEN hcp_name ELSE user_input

ValidateName(st) == NameOrInput(Get(st.current_form_data, "hcp_name", ""), st.user_input)

\* a faulty validate node: the result of the tool is taken as the record
ValidateNode_ResultAsRecord(st, result) ==
  IF Succeeded(result) /\ Truthy(Get(result, "is_valid", None))
  THEN ToolDone(st, result, result)
  ELSE ToolError(st, result, "Validation failed")

ValidateNode(st, result) ==
  IF Succeeded(result) /\ Truthy(Get(result, "is_valid", None))
  THEN ToolDone(st, result,
         Put(Put(st.current_form_data,
                 "hcp_name", Get(result, "formatted_name", None)),
             "key_insights",
             ValidationInsights(Get(result, "likely_specialty", "Unknown"),
                                Get(result, "validation_notes", ""))))
  ELSE ToolError(st, result, "Validation failed")

ValidateHcpNode(st, r) == ValidateNode(st, validate_hcp(ValidateName(st), r))

(***************************************************************************)
(* The formatter.  It has no try: the join of a truthy materials_shared or *)
(* products_discussed that is not iterable raises out of graph.invoke.     *)
(* The texts are written without their pictographs and with * for the      *)
(* bullet.                                                                 *)
(***************************************************************************)
Apology(text) == "Sorry, I encountered an error: " \o text

ListLine(label, v) == IF Truthy(v) THEN label \o Join(", ", v) \o "\n" ELSE ""

LogSummary(form_data) ==
  "I've logged your interaction with " \o Get(form_data, "hcp_name", "the HCP")
    \o ".\n\nDetails captured:\n- Date: " \o Get(form_data, "date", "N/A")
    \o "\n- Sentiment: " \o Get(form_data, "sentiment", "neutral") \o "\n"
    \o ListLine("- Materials: ", Get(form_data, "materials_shared", None))
    \o ListLine("- Products: ", Get(form_data, "products_discussed", None))
    \o "\nYour interaction has been recorded successfully!"

EditSummary(form_data) ==
  "I've updated the interaction with your changes.\n\nCurrent data:\n- HCP: "
    \o Get(form_data, "hcp_name", "N/A")
    \o "\n- Sentiment: " \o Get(form_data, "sentiment", "N/A")
    \o "\nThe form has been updated."

Bullets(title, v) ==
  IF Truthy(v)
  THEN title \o JoinItems("", [i \in 1..Len(Items(v)) |-> "  * " \o Items(v)[i] \o "\n"])
  ELSE ""

ScheduleSummary(tool_results) ==
  "Follow-up scheduled for " \o Get(tool_results, "follow_up_date", "soon") \o "!\n\n"
    \o Bullets("Talking points:\n", Get(tool_results, "talking_points", EmptyList))
    \o (IF Truthy(Get(tool_results, "preparation_notes", None))
        THEN "\nPreparation: " \o Get(tool_results, "preparation_notes", None)
        ELSE "")

InsightsSummary(tool_results) ==
  "Analysis complete! Priority: " \o Get(tool_results, "priority_level", "Medium")
    \o "\n\n"
    \o Bullets("Opportunities:\n", Get(tool_results, "opportunities", EmptyList))
    \o Bullets("\nRecommended actions:\n",
               Get(tool_results, "recommended_actions", EmptyList))

ValidateSummary(tool_results) ==
  "HCP information validated!\n\nName: "
    \o Get(tool_results, "formatted_name", "Unknown")
    \o "\nLikely specialty: " \o Get(tool_results, "likely_specialty", "Unknown") \o "\n"
    \o (IF Truthy(Get(tool_results, "requires_verification", None))
        THEN "\nManual verification recommended."
        ELSE "")

FormatterRaises(st) ==
  /\ ~Truthy(st.error)
  /\ st.intent = "log"
  /\ \E k \in ListFields :
       Truthy(Get(st.form_data, k, None)) /\ ~CanIterate(Get(st.form_data, k, None))

\* a faulty formatter: the apology only on the intent error
FormatterNode_ApologyOnErrorIntent(st) ==
  [st EXCEPT !.chat_response =
     CASE st.intent = "error" -> Apology(st.error)
       [] st.intent = "log" -> LogSummary(st.form_data)
       [] st.intent = "edit" -> EditSummary(st.form_data)
       [] st.intent = "schedule" -> ScheduleSummary(st.tool_results)
       [] st.intent = "insights" -> InsightsSummary(st.tool_results)
       [] st.intent = "validate" -> ValidateSummary(st.tool_results)
       [] OTHER -> "Request processed successfully!"]

FormatterNode(st) ==
  IF Truthy(st.error) THEN [st EXCEPT !.chat_response = Apology(st.error)]
  ELSE [st EXCEPT !.chat_response =
          CASE st.intent = "log" -> LogSummary(st.form_data)
            [] st.intent = "edit" -> EditSummary(st.form_data)
            [] st.intent = "schedule" -> ScheduleSummary(st.tool_results)
            [] st.intent = "insights" -> InsightsSummary(st.tool_results)
            [] st.intent = "validate" -> ValidateSummary(st.tool_results)
            [] OTHER -> "Request processed successfully!"]

(***************************************************************************)
(* The graph of _build_graph and process.                                  *)
(***************************************************************************)
RouteToTool(st) == st.intent

\* a faulty map of the conditional edges: error is wired to the insights node
ConditionalEdges_ErrorToInsights ==
  [log |-> "log_interaction", edit |-> "edit_interaction",
   schedule |-> "schedule_followup", insights |-> "extract_insights",
   validate |-> "validate_hcp", error |-> "extract_insights"]

\* a faulty map of the conditional edges: error is wired to the log node
ConditionalEdges_ErrorToLog ==
  [log |-> "log_interaction", edit |-> "edit_interaction",
   schedule |-> "schedule_followup", insights |-> "extract_insights",
   validate |-> "validate_hcp", error |-> "log_interaction"]

\* a faulty map of the conditional edges: schedule is wired to the edit node
ConditionalEdges_ScheduleToEdit ==
  [log |-> "log_interaction", edit |-> "edit_interaction",
   schedule |-> "edit_interaction", insights |-> "extract_insights",
   validate |-> "validate_hcp", error |-> "formatter"]

ConditionalEdges ==
  [log |-> "log_interaction", edit |-> "edit_interaction",
   schedule |-> "schedule_followup", insights |-> "extract_insights",
   validate |-> "validate_hcp", error |-> "formatter"]

ProcessResult(st, current_form_data, raised) ==
  IF raised # <<>>
  THEN [form_data |-> current_form_data, chat_response |-> Apology(raised[1]),
        intent |-> "error", success |-> FALSE]
  ELSE [form_data |-> st.form_data, chat_response |-> st.chat_response,
        intent |-> st.intent, success |-> ~Truthy(st.error)]

(***************************************************************************)
(* One invocation of process as a value: the node to run next, its         *)
(* AgentState, the exception graph.invoke raised and the dict returned.    *)
(* answers is a history field: the provider's response and the day of      *)
(* every stage run so far.  RunStage runs the node the context stands at.  *)
(***************************************************************************)
Invocations == {"a", "b"}

IdleContext ==
  [pc |-> "idle", state |-> InitialState("hello", EmptyDict), exc |-> <<>>,
   ret |-> <<>>, answers |-> <<>>]

NewContext(user_input, current_form_data) ==
  [IdleContext EXCEPT !.pc = "router",
                      !.state = InitialState(user_input, current_form_data)]

RunStage(c, r, day) ==
  CASE c.pc = "router" ->
         [c EXCEPT !.state = RouterNode(c.state, r),
                   !.pc = ConditionalEdges[RouteToTool(RouterNode(c.state, r))]]
    [] c.pc = "log_interaction" ->
         [c EXCEPT !.state = LogInteractionNode(c.state, r, day), !.pc = "formatter"]
    [] c.pc = "edit_interaction" ->
         [c EXCEPT !.state = EditInteractionNode(c.state, r), !.pc = "formatter"]
    [] c.pc = "schedule_followup" ->
         [c EXCEPT !.state = ScheduleFollowupNode(c.state, r, day), !.pc = "formatter"]
    [] c.pc = "extract_insights" ->
         [c EXCEPT !.state = ExtractInsightsNode(c.state, r), !.pc = "formatter"]
    [] c.pc = "validate_hcp" ->
         [c EXCEPT !.state = ValidateHcpNode(c.state, r), !.pc = "formatter"]
    [] c.pc = "formatter" ->
         IF FormatterRaises(c.state)
         THEN [c EXCEPT !.exc = <<NotIterableError>>, !.pc = "END"]
         ELSE [c EXCEPT !.state = FormatterNode(c.state), !.pc = "END"]
    [] c.pc = "END" ->
         [c EXCEPT !.ret = <<ProcessResult(c.state, c.state.current_form_data, c.exc)>>,
                   !.pc = "done"]
    [] OTHER -> c

\* graph.invoke and the return of process, on the router's response r1 and
\* the tool's response r2: at most four stages lead to "done"
RunAgent(c, r1, r2, day) ==
  RunStage(RunStage(RunStage(RunStage(c, r1, day), r2, day), r2, day), r2, day)

(***************************************************************************)
(* The interactions table and the routes of the API.  A row keeps hcp_name *)
(* and sentiment (the value of its SentimentEnum, or None for NULL); the    *)
(* other columns are the same in every row.                                *)
(***************************************************************************)
EmptyStore == <<>>

\* Interaction.to_dict
ToDict(id, row) ==
  [id |-> Digit(id), hcp_name |-> row.hcp_name, date |-> "2026-01-18",
   sentiment |-> row.sentiment, materials_shared |-> "['x']",
   discussion_summary |-> "Discussed product X", products_discussed |-> EmptyList,
   follow_up_date |-> None, key_insights |-> None,
   created_at |-> "2026-01-18T10:00:00", updated_at |-> "2026-01-18T10:00:00"]

\* len(v.strip()) == 0
Stripped(v) == v = "" \/ Strip(Chars(v)) = <<>>

\* InteractionCreate: hcp_name a non-blank str, sentiment a str when given
CreateValid(p) ==
  /\ "hcp_name" \in DOMAIN p
  /\ p["hcp_name"] # None
  /\ ~Stripped(p["hcp_name"])
  /\ Get(p, "sentiment", "Neutral") # None

\* the conversion of create_interaction: Positive unless negative or neutral
CreateSentiment(s) ==
  IF Lower(Chars(s)) = <<"n", "e", "g", "a", "t", "i", "v", "e">> THEN "Negative"
  ELSE IF Lower(Chars(s)) = <<"n", "e", "u", "t", "r", "a", "l">> THEN "Neutral"
  ELSE "Positive"

\* a faulty schema of the PATCH body: any hcp_name passes
UpdateValid_AnyName(p) == TRUE

\* InteractionUpdate: hcp_name may be None, but not a blank str
UpdateValid(p) ==
  ("hcp_name" \in DOMAIN p /\ p["hcp_name"] # None) => ~Stripped(p["hcp_name"])

\* the conversion of update_interaction, of a truthy value only
UpdateSentiment(value) ==
  IF ~Truthy(value) THEN value
  ELSE IF Lower(Chars(value)) = <<"p", "o", "s", "i", "t", "i", "v", "e">> THEN "Positive"
  ELSE IF Lower(Chars(value)) = <<"n", "e", "g", "a", "t", "i", "v", "e">> THEN "Negative"
  ELSE "Neutral"

\* the setattr loop over the fields that were set
UpdateRow(row, p) ==
  [hcp_name |-> Get(p, "hcp_name", row.hcp_name),
   sentiment |-> IF "sentiment" \in DOMAIN p THEN UpdateSentiment(p["sentiment"])
                 ELSE row.sentiment]

\* db.commit() raises: hcp_name is NOT NULL, sentiment an Enum column
CommitRaises(row) ==
  row.hcp_name = None \/ row.sentiment \notin {"Positive", "Negative", "Neutral", None}

\* if request.interaction_id: the id of a request is <<>> for None, or <<n>>
HasId(interaction_id) == interaction_id # <<>> /\ interaction_id[1] # 0

\* a faulty chat route: a successful merge is written to the loaded row
ChatAnswer_Persists(db, interaction_id, result) ==
  [status |-> 200, agent |-> <<result>>,
   store |-> IF HasId(interaction_id) /\ result.success
             THEN [db EXCEPT ![interaction_id[1]].sentiment =
                     Get(result.form_data, "sentiment", None)]
             ELSE db,
   body |-> [form_data |-> result.form_data, chat_response |-> result.chat_response,
             interaction_id |-> interaction_id]]

\* the answers of chat_endpoint after agent.process returned result
ChatAnswer(db, interaction_id, result) ==
  IF result.success
  THEN [status |-> 200, agent |-> <<result>>, store |-> db,
        body |-> [form_data |-> result.form_data,
                  chat_response |-> result.chat_response,
                  interaction_id |-> interaction_id]]
  ELSE [status |-> 500, agent |-> <<result>>, store |-> db,
        body |-> [detail |-> "Agent processing failed: " \o result.chat_response]]

\* the record chat_endpoint loads: none without a truthy interaction_id
LoadedRecord(db, interaction_id) ==
  IF HasId(interaction_id) THEN ToDict(interaction_id[1], db[interaction_id[1]])
  ELSE EmptyDict

chat_endpoint(db, message, interaction_id, r1, r2, day) ==
  IF HasId(interaction_id) /\ interaction_id[1] \notin DOMAIN db
  THEN [status |-> 404, agent |-> <<>>, store |-> db,
        body |-> [detail |-> "Interaction not found"]]
  ELSE ChatAnswer(db, interaction_id,
                  RunAgent(NewContext(message, LoadedRecord(db, interaction_id)),
                           r1, r2, day).ret[1])

(***************************************************************************)
(* Inputs: the user's messages, the current records, the provider's        *)
(* answers to the router and its responses to the tools.                   *)
(***************************************************************************)
Messages ==
  {"schedule a follow-up", "please change the date and schedule",
   "verify dr smith", "hello", "   "}

NoRecord == EmptyDict

DbRecord ==
  [id |-> "1", hcp_name |-> "Dr. A", date |-> "2026-01-18", sentiment |-> "Positive",
   materials_shared |-> "['x']", discussion_summary |-> "Discussed product X",
   products_discussed |-> EmptyList, follow_up_date |-> None, key_insights |-> None,
   created_at |-> "2026-01-18T10:00:00", updated_at |-> "2026-01-18T10:00:00"]

PartialRecord ==
  [hcp_name |-> "Dr. A", sentiment |-> "Positive", materials_shared |-> "['x']"]

NamelessRecord ==
  [hcp_name |-> None, sentiment |-> "Negative", key_insights |-> "old insights"]

\* the form_data a successful edit of PartialRecord returned
EditedRecord == Put(PartialRecord, "success", PyTrue)

CurrentRecords == {NoRecord, DbRecord, PartialRecord, NamelessRecord, EditedRecord}

AnswerWords ==
  {Chars(w) : w \in {"log", "edit", "update", "change", "schedule", "follow",
                     "insights", "analyze", "opportunity", "validate", "verify",
                     "check", "unsure", " Schedule\n"}}

RECURSIVE JoinWords(_)
JoinWords(ws) ==
  IF Len(ws) = 1 THEN ws[1] ELSE ws[1] \o <<" ">> \o JoinWords(Tail(ws))

AnswerTexts ==
  {JoinWords(ws) : ws \in UNION {[1..n -> AnswerWords] : n \in 1..MaxAnswerWords}}

RouterResponses ==
  {Failure(e) : e \in ProviderErrors}
    \cup {[fail |-> FALSE, err |-> "", text |-> t] : t \in AnswerTexts}

PairUniverse ==
  {Pair("hcp_name", "Dr. B"), Pair("sentiment", "Negative"), Pair("sentiment", ""),
   Pair("materials_shared", "['samples']"), Pair("materials_shared", "7"),
   Pair("success", PyFalse), Pair("error", ""), Pair("is_valid", PyFalse),
   Pair("follow_up_date", "2026-03-01"), Pair("talking_points", "7"),
   Pair("priority_level", "High"), Pair("formatted_name", "Dr. Smith")}

Object(pairs) == <<LBrace>> \o pairs \o <<RBrace>>

ObjectTexts ==
  {Object(ps) : ps \in UNION {[1..n -> PairUniverse] : n \in 0..MaxPairs}}

OtherTexts ==
  {<<Fence, JsonTag, Ws, LBrace, Pair("sentiment", "Negative"), RBrace, Ws, Fence>>,
   <<Prose, Ws, LBrace, Pair("hcp_name", "Dr. B"), RBrace, Ws, Prose>>,
   <<Prose>>,
   <<Fence, JsonTag, Prose, Fence, Ws, LBrace, Pair("hcp_name", "Dr. B"), RBrace>>,
   <<Prose, Fence, Ws, LBrace, Pair("sentiment", "Negative"), RBrace, Ws, Fence>>,
   <<Fence, JsonTag, LBrace, Pair("hcp_name", "Dr. B"), RBrace>>,
   <<LBrace, Prose, RBrace>>,
   Object(<<Pair("opportunities", "['x']"), Pair("concerns", "['tp']")>>),
   <<Val("list", EmptyList)>>, <<Val("list", "['x']")>>,
   <<Val("str", "")>>, <<Val("str", "ok")>>,
   <<Val("num", "7")>>, <<Val("null", None)>>, <<Val("bool", PyTrue)>>}

\* the answers of one word, one for every intent and one for none, and the
\* failure of the provider
OneWordResponses ==
  {Failure(e) : e \in ProviderErrors}
    \cup {[fail |-> FALSE, err |-> "", text |-> Chars(w)] :
            w \in {"log", "edit", "schedule", "insights", "verify", "unsure",
                   " Schedule\n"}}

ToolResponses ==
  {Failure(e) : e \in ProviderErrors}
    \cup {[fail |-> FALSE, err |-> "", text |-> t] : t \in ObjectTexts \cup OtherTexts}

(***************************************************************************)
(* The pipeline: process builds the initial state, graph.invoke runs the   *)
(* router, the tool node its conditional edge selects and the formatter,   *)
(* and process returns.                                                    *)
(***************************************************************************)
Init ==
  /\ pc = "idle"
  /\ state = InitialState("hello", NoRecord)
  /\ ret = <<>>
  /\ ran = <<>>
  /\ today \in 1..MaxDay
  /\ resp = <<>>
  /\ llm_calls = 0
  /\ exc = <<>>
  /\ store = EmptyStore
  /\ http = <<>>
  /\ ctx = [i \in Invocations |-> IdleContext]

\* a day passes before the request arrives
Tick ==
  /\ pc = "idle"
  /\ today < MaxDay
  /\ today' = today + 1
  /\ UNCHANGED <<pc, state, ret, ran, resp, llm_calls, exc>>
  /\ UNCHANGED service

Process ==
  /\ pc = "idle"
  /\ \E user_input \in Messages, current_form_data \in CurrentRecords :
       state' = InitialState(user_input, current_form_data)
  /\ pc' = "router"
  /\ ret' = <<>>
  /\ ran' = <<>>
  /\ resp' = <<>>
  /\ llm_calls' = 0
  /\ exc' = <<>>
  /\ UNCHANGED today
  /\ UNCHANGED service

\* the router node and its conditional edge, on a response of the provider
\* drawn from responses
Route(responses) ==
  /\ pc = "router"
  /\ \E r \in responses :
       /\ state' = RouterNode(state, r)
       /\ resp' = <<r>>
  /\ pc' = ConditionalEdges[RouteToTool(state')]
  /\ ran' = Append(ran, "router")
  /\ llm_calls' = llm_calls + 1
  /\ UNCHANGED <<ret, today, exc>>
  /\ UNCHANGED service

Router == Route(OneWordResponses)

LogInteraction ==
  /\ pc = "log_interaction"
  /\ \E r \in ToolResponses :
       /\ state' = LogInteractionNode(state, r, today)
       /\ resp' = <<r>>
  /\ pc' = "formatter"
  /\ ran' = Append(ran, "log_interaction")
  /\ llm_calls' = llm_calls + 1
  /\ UNCHANGED <<ret, today, exc>>
  /\ UNCHANGED service

EditInteraction ==
  /\ pc = "edit_interaction"
  /\ \E r \in ToolResponses :
       /\ state' = EditInteractionNode(state, r)
       /\ resp' = <<r>>
  /\ pc' = "formatter"
  /\ ran' = Append(ran, "edit_interaction")
  /\ llm_calls' = llm_calls + 1
  /\ UNCHANGED <<ret, today, exc>>
  /\ UNCHANGED service

ScheduleFollowup ==
  /\ pc = "schedule_followup"
  /\ \E r \in ToolResponses :
       /\ state' = ScheduleFollowupNode(state, r, today)
       /\ resp' = <<r>>
  /\ pc' = "formatter"
  /\ ran' = Append(ran, "schedule_followup")
  /\ llm_calls' = llm_calls + 1
  /\ UNCHANGED <<ret, today, exc>>
  /\ UNCHANGED service

\* no provider call is made when the prompt cannot be built
ExtractInsights ==
  /\ pc = "extract_insights"
  /\ IF PromptRaises(state.current_form_data)
     THEN /\ state' = ExtractInsightsNode(state, Failure(""))
          /\ UNCHANGED <<resp, llm_calls>>
     ELSE /\ \E r \in ToolResponses :
               /\ state' = ExtractInsightsNode(state, r)
               /\ resp' = <<r>>
          /\ llm_calls' = llm_calls + 1
  /\ pc' = "formatter"
  /\ ran' = Append(ran, "extract_insights")
  /\ UNCHANGED <<ret, today, exc>>
  /\ UNCHANGED service

\* no provider call is made for a blank name
ValidateHcp ==
  /\ pc = "validate_hcp"
  /\ IF BlankName(ValidateName(state))
     THEN /\ state' = ValidateHcpNode(state, Failure(""))
          /\ UNCHANGED <<resp, llm_calls>>
     ELSE /\ \E r \in ToolResponses :
               /\ state' = ValidateHcpNode(state, r)
               /\ resp' = <<r>>
          /\ llm_calls' = llm_calls + 1
  /\ pc' = "formatter"
  /\ ran' = Append(ran, "validate_hcp")
  /\ UNCHANGED <<ret, today, exc>>
  /\ UNCHANGED service

Formatter ==
  /\ pc = "formatter"
  /\ IF FormatterRaises(state)
     THEN /\ exc' = <<NotIterableError>>
          /\ UNCHANGED state
     ELSE /\ state' = FormatterNode(state)
          /\ UNCHANGED exc
  /\ pc' = "END"
  /\ ran' = Append(ran, "formatter")
  /\ UNCHANGED <<ret, today, resp, llm_calls>>
  /\ UNCHANGED service

Return ==
  /\ pc = "END"
  /\ ret' = <<ProcessResult(state, state.current_form_data, exc)>>
  /\ pc' = "done"
  /\ UNCHANGED <<state, ran, today, resp, llm_calls, exc>>
  /\ UNCHANGED service

Next ==
  \/ Tick
  \/ Process
  \/ Router
  \/ LogInteraction
  \/ EditInteraction
  \/ ScheduleFollowup
  \/ ExtractInsights
  \/ ValidateHcp
  \/ Formatter
  \/ Return

Spec == Init /\ [][Next]_vars

(***************************************************************************)
(* The classifier alone, on every answer of up to MaxAnswerWords words.    *)
(***************************************************************************)
Classify == Route(RouterResponses)

NextRouter ==
  \/ Tick
  \/ Process
  \/ Classify

SpecRouter == Init /\ [][NextRouter]_vars

(***************************************************************************)
(* The API: requests are served one at a time, each by its route, on any   *)
(* JSON body and any id; http holds the answer until it is sent.           *)
(***************************************************************************)
\* the JSON bodies of POST and PATCH /api/interactions: hcp_name and
\* sentiment, each left out, null or a string
Payloads ==
  {Merge(h, s) :
     h \in {EmptyDict} \cup {"hcp_name" :> v : v \in {None, "", "   ", "Dr. A", "Dr. B"}},
     s \in {EmptyDict}
             \cup {"sentiment" :> v :
                     v \in {None, "", "Positive", "negative", "NEUTRAL", "Mixed"}}}

ServiceMessages == {"verify dr smith", "please change the date and schedule"}

ServiceRouterResponses ==
  {Failure("timeout")}
    \cup {[fail |-> FALSE, err |-> "", text |-> Chars(w)] :
            w \in {"log", "edit", "verify"}}

ServiceToolResponses ==
  {Failure("timeout")}
    \cup {[fail |-> FALSE, err |-> "", text |-> t] :
            t \in {Object(<<>>), Object(<<Pair("sentiment", "Negative")>>),
                   Object(<<Pair("is_valid", PyFalse)>>)}}

\* the id SQLite gives the next row: one more than the greatest in use
NextId(db) == IF DOMAIN db = {} THEN 1 ELSE Greatest(DOMAIN db) + 1

\* request, interaction_id and body are history fields: what was asked
Answered(request, interaction_id, body, answer) ==
  <<[request |-> request, interaction_id |-> interaction_id, body |-> body,
     answer |-> answer]>>

CreateInteraction ==
  /\ http = <<>>
  /\ \E p \in Payloads :
       IF ~CreateValid(p)
       THEN /\ http' = Answered("create", <<>>, p, [status |-> 422])
            /\ UNCHANGED store
       ELSE /\ NextId(store) <= MaxId
            /\ store' = store @@ (NextId(store) :>
                          [hcp_name |-> p["hcp_name"],
                           sentiment |-> CreateSentiment(Get(p, "sentiment", "Neutral"))])
            /\ http' = Answered("create", <<NextId(store)>>, p, [status |-> 201])
  /\ UNCHANGED <<invocation, today, ctx>>

UpdateInteraction ==
  /\ http = <<>>
  /\ \E interaction_id \in 1..MaxId, p \in Payloads :
       IF ~UpdateValid(p)
       THEN /\ http' = Answered("update", <<interaction_id>>, p, [status |-> 422])
            /\ UNCHANGED store
       ELSE IF interaction_id \notin DOMAIN store
       THEN /\ http' = Answered("update", <<interaction_id>>, p, [status |-> 404])
            /\ UNCHANGED store
       ELSE IF CommitRaises(UpdateRow(store[interaction_id], p))
       THEN /\ http' = Answered("update", <<interaction_id>>, p, [status |-> 500])
            /\ UNCHANGED store
       ELSE /\ store' = [store EXCEPT ![interaction_id] = UpdateRow(@, p)]
            /\ http' = Answered("update", <<interaction_id>>, p, [status |-> 200])
  /\ UNCHANGED <<invocation, today, ctx>>

DeleteInteraction ==
  /\ http = <<>>
  /\ \E interaction_id \in 1..MaxId :
       IF interaction_id \notin DOMAIN store
       THEN /\ http' = Answered("delete", <<interaction_id>>, EmptyDict, [status |-> 404])
            /\ UNCHANGED store
       ELSE /\ store' = [i \in (DOMAIN store) \ {interaction_id} |-> store[i]]
            /\ http' = Answered("delete", <<interaction_id>>, EmptyDict, [status |-> 200])
  /\ UNCHANGED <<invocation, today, ctx>>

\* POST /api/chat: ChatRequest refuses a blank message before the route runs
Chat ==
  /\ http = <<>>
  /\ \E message \in ServiceMessages \cup {"   "},
        interaction_id \in {<<>>} \cup {<<n>> : n \in 0..MaxId},
        r1 \in ServiceRouterResponses, r2 \in ServiceToolResponses :
       IF Stripped(message)
       THEN /\ http' = Answered("chat", interaction_id, message,
                                [status |-> 422, agent |-> <<>>, store |-> store])
            /\ UNCHANGED store
       ELSE /\ http' = Answered("chat", interaction_id, message,
                                chat_endpoint(store, message, interaction_id, r1, r2, today))
            /\ store' = http'[1].answer.store
  /\ UNCHANGED <<invocation, today, ctx>>

\* the answer is sent and the next request can be served
Reply ==
  /\ http # <<>>
  /\ http' = <<>>
  /\ UNCHANGED <<invocation, today, store, ctx>>

NextApi ==
  \/ CreateInteraction
  \/ UpdateInteraction
  \/ DeleteInteraction
  \/ Chat
  \/ Reply

SpecApi == Init /\ [][NextApi]_vars

(***************************************************************************)
(* Two invocations of process on the one agent, interleaved stage by       *)
(* stage, each on the initial_state process built for it.                  *)
(***************************************************************************)
\* a faulty agent: every stage runs on the context of invocation "a"
OwnContext_Shared(contexts, i) == contexts["a"]

\* the context a stage of invocation i runs on
OwnContext(contexts, i) == contexts[i]

Invoke(i) ==
  /\ ctx[i].pc = "idle"
  /\ \E user_input \in ServiceMessages, current_form_data \in {NoRecord, DbRecord} :
       ctx' = [ctx EXCEPT ![i] =
                 [NewContext(user_input, current_form_data) EXCEPT !.answers =
                    <<[user_input |-> user_input,
                       current_form_data |-> current_form_data]>>]]
  /\ UNCHANGED <<invocation, today, store, http>>

StageResponses(node) ==
  IF node = "router" THEN ServiceRouterResponses
  ELSE IF node \in {"formatter", "END"} THEN {Failure("")}
  ELSE ServiceToolResponses

Step(i) ==
  /\ ctx[i].pc \notin {"idle", "done"}
  /\ \E r \in StageResponses(ctx[i].pc) :
       ctx' = [ctx EXCEPT ![i] =
                 [RunStage(OwnContext(ctx, i), r, today) EXCEPT !.answers =
                    Append(ctx[i].answers, [r |-> r, day |-> today])]]
  /\ UNCHANGED <<invocation, today, store, http>>

NextConcurrent ==
  \/ \E i \in Invocations : Invoke(i)
  \/ \E i \in Invocations : Step(i)

SpecConcurrent == Init /\ [][NextConcurrent]_vars

(***************************************************************************)
(* Properties.  process has returned when pc is "done"; the handler nodes  *)
(* are named as _build_graph names them.                                   *)
(***************************************************************************)
NodeOfIntent ==
  [log |-> "log_interaction", edit |-> "edit_interaction",
   schedule |-> "schedule_followup", insights |-> "extract_insights",
   validate |-> "validate_hcp"]

StagesOf(intent) ==
  IF intent = "error" THEN <<"router", "formatter">>
  ELSE <<"router", NodeOfIntent[intent], "formatter">>

IsPrefix(s, t) == Len(s) <= Len(t) /\ SubSeq(t, 1, Len(s)) = s

HandlerRan(node) == Len(ran) >= 2 /\ ran[2] = node

\* C1: the stages run in the order router, at most one handler, formatter
\* once, and then the call returns; no node runs twice; the handler that runs
\* is the one the intent names, and on intent error no handler runs.
C1_LinearPipeline ==
  /\ \A i, j \in 1..Len(ran) : i # j => ran[i] # ran[j]
  /\ ran # <<>> =>
       /\ state.intent \in {"error"} \cup DOMAIN NodeOfIntent
       /\ IsPrefix(ran, StagesOf(state.intent))
  /\ pc \in {"END", "done"} => ran = StagesOf(state.intent)
  /\ (pc = "done") <=> (ret # <<>>)

C1_Witness ==
  /\ pc = "done"
  /\ state.intent = "schedule"
  /\ ran = <<"router", "schedule_followup", "formatter">>

\* C2 (as stated): process returns success=false if and only if some stage
\* recorded an error during the invocation, whatever the text of the error,
\* the empty text included.
C2_FailureIffErrorRecorded ==
  pc = "done" => (ret[1].success = FALSE <=> state.recorded # <<>>)

\* C3 (as stated): whenever process returns success=false, the returned
\* form_data equals the current record that was passed in.
C3_FailureEchoesCurrentRecord ==
  (pc = "done" /\ ret[1].success = FALSE)
    => ret[1].form_data = state.current_form_data

(***************************************************************************)
(* The edit handler: the extraction is what extract_json made of the       *)
(* provider's response to the handler, the merged record is form_data.     *)
(***************************************************************************)
Extraction == ExtractJson(resp[1])

ExtractionKeys(x) == IF x.kind = "dict" THEN DOMAIN x.d ELSE {}

Preserved(current, keys, merged) ==
  \A k \in (DOMAIN current) \ keys : k \in DOMAIN merged /\ merged[k] = current[k]

\* C4: every field of the current record whose key is not in the extraction
\* has the same value in the merged record of the edit handler.
C4_EditPreservesUntouched ==
  HandlerRan("edit_interaction")
    => Preserved(state.current_form_data, ExtractionKeys(Extraction), state.form_data)

C4_Witness ==
  /\ HandlerRan("edit_interaction")
  /\ state.current_form_data = DbRecord
  /\ ~resp[1].fail
  /\ resp[1].text = Object(<<Pair("hcp_name", "Dr. B")>>)
  /\ state.form_data["hcp_name"] = "Dr. B"
  /\ state.form_data["sentiment"] = "Positive"

Overlaid(changes, keys, merged) ==
  \A k \in keys : k \in DOMAIN merged /\ merged[k] = changes[k]

NonEmptyMapping(x) == x.kind = "dict" /\ x.d # EmptyDict

\* C5 (as stated): every pair of a non-empty extraction mapping emitted by the
\* provider is in the merged record of the edit handler with the emitted
\* value, whatever the key.
C5_EveryPairOverlaid ==
  (HandlerRan("edit_interaction") /\ ~resp[1].fail /\ JsonLoads(resp[1].text).kind = "dict"
     /\ NonEmptyMapping(Extraction))
    => Overlaid(Extraction.d, DOMAIN Extraction.d, state.form_data)

\* C5 (amended): every pair of a non-empty extraction mapping without the key
\* error is in the merged record with the emitted value, except the key success,
\* which is True; a mapping with the key error changes no field.
C5_PairsOverlaidUnlessError ==
  (HandlerRan("edit_interaction") /\ NonEmptyMapping(Extraction))
    => IF "error" \in DOMAIN Extraction.d
       THEN Preserved(state.current_form_data, {"success"}, state.form_data)
            /\ DOMAIN state.form_data = DOMAIN state.current_form_data \cup {"success"}
       ELSE Overlaid(Extraction.d, DOMAIN Extraction.d \ {"success"}, state.form_data)
            /\ state.form_data["success"] = PyTrue

C5_Witness ==
  /\ HandlerRan("edit_interaction")
  /\ state.current_form_data = PartialRecord
  /\ ~resp[1].fail
  /\ resp[1].text = Object(<<Pair("hcp_name", "Dr. B"), Pair("sentiment", "Negative")>>)
  /\ state.form_data["hcp_name"] = "Dr. B"
  /\ state.form_data["sentiment"] = "Negative"
  /\ state.form_data["materials_shared"] = "['x']"

\* the extraction is empty, or the sentinel of a parse failure
EmptyOrSentinel(x, text) ==
  \/ x.kind = "dict" /\ x.d = EmptyDict
  \/ x.kind \in {"list", "str"} /\ ~Truthy(x.v)
  \/ x = ParseFailure(text)

EditNoOp == HandlerRan("edit_interaction") /\ ~resp[1].fail /\ EmptyOrSentinel(Extraction, resp[1].text)

\* C6 (as stated): on an empty extraction or the parse-failure sentinel the
\* edit handler succeeds, process returns success=true and the merged record
\* is the current record as it is, nothing added.
C6_NoOpReturnsRecordAsIs ==
  (pc = "done" /\ EditNoOp)
    => /\ Succeeded(state.tool_results)
       /\ ret[1].success = TRUE
       /\ ret[1].form_data = state.current_form_data

\* C6 (amended): on an empty extraction or the parse-failure sentinel the edit
\* handler succeeds, process returns success=true and the merged record is the
\* current record with success set to True: every other field as it was.
C6_NoOpAddsSuccessOnly ==
  (pc = "done" /\ EditNoOp)
    => /\ Succeeded(state.tool_results)
       /\ ret[1].success = TRUE
       /\ ret[1].form_data = Put(state.current_form_data, "success", PyTrue)

C6_Witness ==
  /\ pc = "done"
  /\ EditNoOp
  /\ Extraction = ParseFailure(resp[1].text)
  /\ state.current_form_data = DbRecord
  /\ ret[1].form_data = Put(DbRecord, "success", PyTrue)

(***************************************************************************)
(* The log handler.  OtherLogRun(c) is the run of the log node on the same *)
(* message, the same response of the provider and the same day, but on the *)
(* current record c.                                                       *)
(***************************************************************************)
BeforeLog(c) == [InitialState(state.user_input, c) EXCEPT !.intent = "log"]

OtherLogRun(c) == LogInteractionNode(BeforeLog(c), resp[1], today)

SameOutput(other) ==
  /\ other.tool_results = state.tool_results
  /\ other.form_data = state.form_data
  /\ other.error = state.error

\* C7: two runs of the log handler on the same message and the same answer
\* of the provider, with different current records, give the same extracted
\* fields and the same merged record: the merged record is the one of a run
\* without a prior record, so no field of the prior record survives.
C7_LogIgnoresPriorRecord ==
  HandlerRan("log_interaction") => \A c \in CurrentRecords : SameOutput(OtherLogRun(c))

C7_Witness ==
  /\ HandlerRan("log_interaction")
  /\ state.current_form_data = DbRecord
  /\ DOMAIN state.form_data = RecordFields
  /\ state.form_data["hcp_name"] = "Dr. B"
  /\ state.form_data["sentiment"] = "Neutral"
  /\ state.form_data = OtherLogRun(NoRecord).form_data

LogDefaultOf ==
  [hcp_name |-> None, date |-> Strftime(today), sentiment |-> "Neutral",
   materials_shared |-> EmptyList, products_discussed |-> EmptyList,
   discussion_summary |-> None]

LeftEmpty(x, k) == x.kind # "dict" \/ ~Truthy(Get(x.d, k, None))

Defaulted(x, merged) ==
  \A k \in DOMAIN LogDefaultOf :
    LeftEmpty(x, k) => k \in DOMAIN merged /\ merged[k] = LogDefaultOf[k]

\* C8 (as stated): after a run of the log handler in which the provider call
\* did not fail, the merged record has exactly the eight record fields, and
\* each field the extraction left missing or empty has its default.
C8_LogDefaulting ==
  (HandlerRan("log_interaction") /\ ~resp[1].fail)
    => /\ DOMAIN state.form_data = RecordFields
       /\ Defaulted(Extraction, state.form_data)

(***************************************************************************)
(* The classifier.  Answer is the provider's answer as the router matches  *)
(* it: stripped and in lower case.                                         *)
(***************************************************************************)
Answer == Lower(Strip(resp[1].text))

Precedence == <<"log", "edit", "schedule", "insights", "validate">>

KeysOf ==
  [log |-> LogKeys, edit |-> EditKeys, schedule |-> ScheduleKeys,
   insights |-> InsightsKeys, validate |-> ValidateKeys]

FirstMatch(i, text) ==
  /\ HasAny(KeysOf[Precedence[i]], text)
  /\ \A j \in 1..(i - 1) : ~HasAny(KeysOf[Precedence[j]], text)

\* C9: the intent is the label of the first of the keyword sets log, edit,
\* schedule, insights, validate with a keyword contained in the provider's
\* answer; an answer with keywords of several sets yields the earlier label.
C9_ClassifierPrecedence ==
  (ran = <<"router">> /\ ~resp[1].fail)
    => \A i \in 1..Len(Precedence) :
         FirstMatch(i, Answer) => state.intent = Precedence[i]

C9_Witness ==
  /\ ran = <<"router">>
  /\ ~resp[1].fail
  /\ Contains(Chars("change"), Answer)
  /\ Contains(Chars("schedule"), Answer)
  /\ state.intent = "edit"

ScheduleWord(text) == HasAny(ScheduleKeys, text)

NoEarlierWord(text) == ~HasAny(LogKeys \cup EditKeys, text)

\* C10 (as stated): for every user message containing schedule or follow and
\* no conflicting keyword the intent is schedule, whatever the record and
\* whatever the provider answers.
C10_MessageDecidesSchedule ==
  (ran = <<"router">>
     /\ ~resp[1].fail
     /\ ScheduleWord(Chars(state.user_input))
     /\ NoEarlierWord(Chars(state.user_input)))
    => state.intent = "schedule"

\* C10 (amended): for every answer of the provider containing schedule or
\* follow and no keyword of the log and edit sets the intent is schedule,
\* whatever the record and whatever the user's message.
C10_AnswerDecidesSchedule ==
  (ran = <<"router">> /\ ~resp[1].fail /\ ScheduleWord(Answer) /\ NoEarlierWord(Answer))
    => state.intent = "schedule"

C10_Witness ==
  /\ ran = <<"router">>
  /\ ~resp[1].fail
  /\ Answer = Chars("follow")
  /\ state.user_input = "hello"
  /\ ~HasExistingData(state)
  /\ state.intent = "schedule"

NoKeyword(text) ==
  ~HasAny(LogKeys \cup EditKeys \cup ScheduleKeys \cup InsightsKeys \cup ValidateKeys,
          text)

Fallback == ran = <<"router">> /\ ~resp[1].fail /\ NoKeyword(Answer)

\* C11 (as stated): when no keyword of the five sets matches, the intent is
\* edit if a non-empty current record was supplied and log if none was.
C11_FallbackByRecord ==
  Fallback
    => state.intent = IF state.current_form_data # EmptyDict THEN "edit" ELSE "log"

\* C11 (amended): when no keyword of the five sets matches, the intent is edit
\* if the current record has a non-empty hcp_name and log otherwise, also for
\* a non-empty record without a name.
C11_FallbackByName ==
  Fallback
    => state.intent =
         IF "hcp_name" \in DOMAIN state.current_form_data
            /\ state.current_form_data["hcp_name"] \notin {None, ""}
         THEN "edit" ELSE "log"

C11_Witness ==
  /\ Fallback
  /\ state.current_form_data = NamelessRecord
  /\ state.intent = "log"

(***************************************************************************)
(* Failures.  The router's provider call is the first of the invocation:   *)
(* right after the router, resp is its response.                           *)
(***************************************************************************)
RouterCallFailed == ran = <<"router">> /\ resp[1].fail

ApologyOf(text) == "Sorry, I encountered an error: " \o text

\* C12: if the provider call of the router fails, the intent becomes error and
\* the error is the failure message; from then on the provider is not called
\* again, no handler runs, and process returns success=false with the apology.
C12_ClassifierFailure ==
  /\ RouterCallFailed
       => /\ state.intent = "error"
          /\ state.error = "LLM API call failed: " \o resp[1].err
          /\ pc = "formatter"
  /\ (ran = <<"router">> /\ ~resp[1].fail) => state.intent # "error"
  /\ state.intent = "error"
       => /\ llm_calls = 1
          /\ resp[1].fail
          /\ IsPrefix(ran, <<"router", "formatter">>)
          /\ state.error = "LLM API call failed: " \o resp[1].err
          /\ pc = "done"
               => /\ ret[1].success = FALSE
                  /\ ret[1].intent = "error"
                  /\ ret[1].chat_response = ApologyOf(state.error)

C12_Witness ==
  /\ pc = "done"
  /\ state.intent = "error"
  /\ state.current_form_data = DbRecord
  /\ ret[1].chat_response = "Sorry, I encountered an error: LLM API call failed: timeout"

FormatterRan == pc \in {"END", "done"}

ErrorSet == state.error # ""

\* C13: whenever the error is set (non-empty) when the formatter runs, the
\* summary is the apology with the error text, whatever the intent, the merged
\* record and the handler's output: no other summary goes with a set error.
C13_FormatterErrorPrecedence ==
  (FormatterRan /\ ErrorSet)
    => /\ exc = <<>>
       /\ state.chat_response = ApologyOf(state.error)
       /\ pc = "done" => ret[1].chat_response = ApologyOf(state.error)

C13_Witness ==
  /\ pc = "done"
  /\ state.intent = "edit"
  /\ ErrorSet
  /\ state.form_data = DbRecord
  /\ state.tool_results # EmptyDict
  /\ ret[1].chat_response = ApologyOf(state.error)

(***************************************************************************)
(* The merges of the schedule, insights and validate handlers.  A handler  *)
(* run is successful when the handler ran and recorded no error.           *)
(***************************************************************************)
Successful(node) == HandlerRan(node) /\ state.recorded = <<>>

MergedOver(current, keys, merged) ==
  /\ DOMAIN merged = (DOMAIN current) \cup keys
  /\ Preserved(current, keys, merged)

Extracted(x, k) == x.kind = "dict" /\ Get(x.d, k, None) \notin {None, "", EmptyList}

\* C14: after a successful run of the schedule handler the merged record is
\* the current record on every field but follow_up_date and key_insights, and
\* follow_up_date is the extracted date, or one week from today without one.
C14_ScheduleMergeAdditive ==
  Successful("schedule_followup")
    => /\ MergedOver(state.current_form_data, {"follow_up_date", "key_insights"},
                     state.form_data)
       /\ state.form_data["follow_up_date"] =
            IF Extracted(Extraction, "follow_up_date")
            THEN Extraction.d["follow_up_date"]
            ELSE Strftime(today + 7)

C14_Witness ==
  /\ Successful("schedule_followup")
  /\ state.current_form_data = DbRecord
  /\ ~Extracted(Extraction, "follow_up_date")
  /\ today = 2
  /\ state.form_data["follow_up_date"] = "2026-01-09"
  /\ state.form_data["hcp_name"] = "Dr. A"

\* C15: after a successful run of the insights handler the merged record is
\* the current record on every field but key_insights, which is the composite
\* of priority, opportunities, concerns and recommended actions alone.
C15_InsightsMergeAdditive ==
  Successful("extract_insights")
    => /\ MergedOver(state.current_form_data, {"key_insights"}, state.form_data)
       /\ state.form_data["key_insights"] = InsightsText(state.tool_results)

C15_Witness ==
  /\ Successful("extract_insights")
  /\ state.current_form_data = NamelessRecord
  /\ state.form_data["sentiment"] = "Negative"
  /\ state.form_data["key_insights"] =
       "Priority: Low\n\nOpportunities:\n- - x\n\nConcerns:\n- - tp\n\n"
         \o "Recommended Actions:\n- - Follow up with HCP"

InsightsResultMade == HandlerRan("extract_insights") /\ Succeeded(state.tool_results)

RecordSentiment ==
  IF "sentiment" \in DOMAIN state.current_form_data
  THEN state.current_form_data["sentiment"]
  ELSE "missing"

PriorityBySentiment ==
  CASE RecordSentiment = "Positive" -> "High"
    [] RecordSentiment = "Negative" -> "Low"
    [] OTHER -> "Medium"

\* C16: the result of the insights handler has the extracted priority_level
\* when the extraction carries one, and otherwise High for a record of
\* sentiment Positive, Low for Negative, Medium for any other or none.
C16_PriorityFallback ==
  InsightsResultMade
    => state.tool_results["priority_level"] =
         IF Extracted(Extraction, "priority_level")
         THEN Extraction.d["priority_level"]
         ELSE PriorityBySentiment

C16_Witness ==
  /\ InsightsResultMade
  /\ ~Extracted(Extraction, "priority_level")
  /\ RecordSentiment = "Negative"
  /\ state.tool_results["priority_level"] = "Low"

\* C17: after a successful run of the validate handler the merged record is
\* the current record on every field but hcp_name, which is the formatted
\* name of the result (the provider's when it gave one), and key_insights,
\* which is made of the specialty and the validation notes.
C17_ValidateMergeOverlay ==
  Successful("validate_hcp")
    => /\ MergedOver(state.current_form_data, {"hcp_name", "key_insights"},
                     state.form_data)
       /\ state.form_data["hcp_name"] = state.tool_results["formatted_name"]
       /\ Extracted(Extraction, "formatted_name")
            => state.form_data["hcp_name"] = Extraction.d["formatted_name"]
       /\ state.form_data["key_insights"] =
            "HCP Validation:\n- Specialty: " \o state.tool_results["likely_specialty"]
              \o "\n- Notes: " \o state.tool_results["validation_notes"]

C17_Witness ==
  /\ Successful("validate_hcp")
  /\ state.current_form_data = DbRecord
  /\ state.form_data["hcp_name"] = "Dr. Smith"
  /\ state.form_data["sentiment"] = "Positive"
  /\ state.form_data["key_insights"] =
       "HCP Validation:\n- Specialty: General Practice\n- Notes: Name validated"

ValidatedName ==
  IF Get(state.current_form_data, "hcp_name", "") \in {None, "", EmptyList}
  THEN state.user_input
  ELSE state.current_form_data["hcp_name"]

WhitespaceOnly == Strip(Chars(ValidatedName)) = <<>>

\* C18: when the validate handler runs on an empty or whitespace-only name,
\* the result of validate_hcp has success false and requires_verification
\* true, the handler made no call of the completion gateway (the only call
\* of the run is the classifier's), and the pipeline recorded the error.
C18_EmptyNameShortCircuit ==
  (HandlerRan("validate_hcp") /\ WhitespaceOnly)
    => /\ state.tool_results["success"] = PyFalse
       /\ state.tool_results["requires_verification"] = PyTrue
       /\ llm_calls = 1
       /\ state.recorded = <<"HCP name is empty">>
       /\ state.error = "HCP name is empty"
       /\ pc = "done" => ret[1].success = FALSE

C18_Witness ==
  /\ HandlerRan("validate_hcp")
  /\ state.user_input = "   "
  /\ state.current_form_data = NamelessRecord
  /\ state.tool_results = ValidateEmpty
  /\ llm_calls = 1
  /\ pc = "done"

(***************************************************************************)
(* The chain of parse attempts as the claim C19 lists them, each step a     *)
(* sequence of parses: the whole response, the block of a fence tagged      *)
(* json, the parts between fences that start with { and end with }, and    *)
(* the span from the first { to the last }.                                *)
(***************************************************************************)
WholeStep(text) == <<JsonLoads(text)>>

TaggedStepAt(text, tag, end) ==
  IF tag # -1 /\ end # -1 THEN <<JsonLoads(SubSeq(text, tag + 2, end - 1))>> ELSE <<>>

TaggedStepFrom(text, tag) ==
  TaggedStepAt(text, tag, IF tag = -1 THEN -1 ELSE Find(Fence, text, tag + 2))

TaggedStep(text) == TaggedStepFrom(text, FindJsonFence(text))

BracedPart(part) == part # <<>> /\ part[1] = LBrace /\ part[Len(part)] = RBrace

FencedStepOf(parts) ==
  [i \in 1..Len(parts) |->
     IF BracedPart(StripToks(parts[i])) THEN JsonLoads(parts[i]) ELSE DecodeError]

FencedStep(text) ==
  IF Find(Fence, text, 1) = -1 THEN <<>> ELSE FencedStepOf(SplitFence(text))

SpanStepAt(text, start, end) ==
  IF start # -1 /\ end > start THEN <<JsonLoads(SubSeq(text, start, end - 1))>> ELSE <<>>

SpanStep(text) == SpanStepAt(text, Find(LBrace, text, 1), RFind(RBrace, text) + 1)

ChainSteps(text) ==
  WholeStep(text) \o TaggedStep(text) \o FencedStep(text) \o SpanStep(text)

FirstSuccess(steps, text) ==
  IF \A i \in 1..Len(steps) : steps[i].kind = "raise"
  THEN Returned("dict",
                ("error" :> "Failed to parse JSON") @@ ("raw_response" :> Render(text)),
                "")
  ELSE steps[Least({i \in 1..Len(steps) : steps[i].kind # "raise"})]

ToolCallAnswered == Len(ran) >= 2 /\ ran[2] # "formatter" /\ llm_calls = 2 /\ ~resp[1].fail

\* C19: the extraction of a tool's completion is the parse of the first step
\* of the chain that succeeds (whole response, json-tagged block, braced
\* parts between fences, first { to last }), and it is the sentinel, with
\* the provider's text verbatim in raw_response, only when every step fails.
C19_FallbackChain ==
  ToolCallAnswered => Extraction = FirstSuccess(ChainSteps(resp[1].text), resp[1].text)

ProviderCallFailed == resp # <<>> /\ resp[1].fail

\* C20: when a completion call fails, in the classifier or inside a handler,
\* it is made once and not repeated (one call by the classifier, one more by
\* the handler), the context's error is set, and process returns, without
\* raising, success false and the apology for that error.
C20_ProviderFailureContained ==
  ProviderCallFailed
    => /\ llm_calls = Len(SelectSeq(ran, LAMBDA n : n # "formatter"))
       /\ state.recorded # <<>>
       /\ ErrorSet
       /\ exc = <<>>
       /\ pc = "done"
            => /\ ret[1].success = FALSE
               /\ ret[1].chat_response = ApologyOf(state.error)

ParseFailed == ToolCallAnswered /\ "raw_response" \in ExtractionKeys(Extraction)

EmptyExtractionEffect ==
  /\ HandlerRan("log_interaction")
       => state.form_data =
            [k \in RecordFields |->
               CASE k = "date" -> Strftime(today)
                 [] k = "sentiment" -> "Neutral"
                 [] k \in ListFields -> EmptyList
                 [] OTHER -> None]
  /\ HandlerRan("edit_interaction")
       => /\ MergedOver(state.current_form_data, {"success"}, state.form_data)
          /\ state.form_data["success"] = PyTrue
  /\ HandlerRan("schedule_followup")
       => /\ MergedOver(state.current_form_data, {"follow_up_date", "key_insights"},
                        state.form_data)
          /\ state.form_data["follow_up_date"] = Strftime(today + DaysInWeek)
  /\ HandlerRan("extract_insights")
       => /\ state.tool_results["opportunities"] = EmptyList
          /\ state.tool_results["concerns"] = EmptyList
          /\ state.tool_results["priority_level"] = PriorityBySentiment
  /\ HandlerRan("validate_hcp")
       => /\ state.tool_results["is_valid"] = PyTrue
          /\ state.tool_results["likely_specialty"] = "General Practice"
          /\ state.form_data["hcp_name"] = Title(ValidatedName)

CallingStages == SelectSeq(ran, LAMBDA n : n # "formatter")

\* C28: in one process invocation the provider is called at most twice, once
\* by the router and at most once by the handler that ran; it is called
\* exactly once when the router failed (intent error) and when validate
\* short-circuited on an empty name.
C28_BoundedProviderUse ==
  /\ llm_calls <= 2
  /\ llm_calls <= Len(CallingStages)
  /\ ran # <<>> => llm_calls >= 1
  /\ state.intent = "error" => llm_calls = 1
  /\ (HandlerRan("validate_hcp") /\ WhitespaceOnly) => llm_calls = 1

C28_Witness ==
  /\ pc = "done"
  /\ llm_calls = 2
  /\ ran = <<"router", "schedule_followup", "formatter">>
  /\ state.current_form_data = PartialRecord

ReportsInvalid ==
  /\ HandlerRan("validate_hcp")
  /\ ToolCallAnswered
  /\ Extraction.kind = "dict"
  /\ Get(Extraction.d, "is_valid", None) = PyFalse

NameReplaced == HandlerRan("validate_hcp") /\ "hcp_name" \in DOMAIN state.form_data

\* C29: when the extraction reports is_valid false for a non-empty name, the
\* validate node replaces neither hcp_name nor key_insights, records the
\* error 'Validation failed' and process returns success false; hcp_name is
\* replaced only when the tool succeeded and is_valid is true, is_valid being
\* true when the extraction omits it.
C29_ValidateRejection ==
  /\ ReportsInvalid
       => /\ state.form_data = EmptyDict
          /\ state.recorded = <<"Validation failed">>
          /\ state.error = "Validation failed"
          /\ pc = "done" => ret[1].success = FALSE
  /\ NameReplaced
       => /\ state.tool_results["success"] = PyTrue
          /\ state.tool_results["is_valid"] \notin {PyFalse, None}
  /\ (HandlerRan("validate_hcp") /\ ToolCallAnswered /\ Extraction.kind = "dict"
        /\ "is_valid" \notin DOMAIN Extraction.d)
       => /\ state.tool_results["is_valid"] = PyTrue
          /\ NameReplaced

\* C30: when the provider call of a tool succeeds, extract_json returns a
\* mapping, either the object parsed from the response or the sentinel,
\* whatever the response text is: never a value that is not a mapping and
\* never an exception.
C30_ExtractionIsMapping == ToolCallAnswered => Extraction.kind = "dict"

SentimentValues == {"Positive", "Negative", "Neutral"}

ListValues == {EmptyList, "['x']", "['samples']"}

RecordInvariant(record) ==
  /\ "sentiment" \in DOMAIN record
  /\ record["sentiment"] \in SentimentValues
  /\ \A k \in ListFields : k \in DOMAIN record /\ record[k] \in ListValues

\* C22: when the current record has a sentiment among Positive, Negative and
\* Neutral and sequences for materials_shared and products_discussed, the
\* merged record of a successful process call has them too, whatever the
\* provider answered; so the same holds after any number of calls each fed
\* the merged record of the one before.
C22_RecordInvariantKept ==
  (pc = "done" /\ ret[1].success /\ RecordInvariant(state.current_form_data))
    => RecordInvariant(ret[1].form_data)

\* C23: after any sequence of create, PATCH and delete requests the
\* sentiment of every stored interaction is one of Positive, Negative and
\* Neutral, never absent.
C23_PersistedSentiment ==
  \A id \in DOMAIN store : store[id].sentiment \in SentimentValues

NoName(record) == record["hcp_name"] = None \/ Stripped(record["hcp_name"])

CarriesNoName ==
  /\ http # <<>>
  /\ http[1].request \in {"create", "update"}
  /\ "hcp_name" \in DOMAIN http[1].body
  /\ NoName(http[1].body)

StoredNamed == \A id \in DOMAIN store : ~NoName(store[id])

RejectsNoName ==
  (http = <<>> /\ CarriesNoName')
    => (store' = store /\ http'[1].answer.status >= 400)

\* C24: after any sequence of create, PATCH and delete requests every stored
\* interaction has an hcp_name that is neither null nor blank, and a create
\* or PATCH that carries a null, empty or whitespace-only hcp_name is
\* rejected and leaves the stored interactions as they were.
C24_NameRequiredWhenStored == []StoredNamed /\ [][RejectsNoName]_vars

C24_Witness ==
  /\ CarriesNoName
  /\ http[1].request = "update"
  /\ http[1].body["hcp_name"] = None
  /\ http[1].answer.status = 500
  /\ http[1].interaction_id[1] \in DOMAIN store

ChatServed == http # <<>> /\ http[1].request = "chat"

\* C25: a chat request, with or without an interaction_id and whatever its
\* intent and outcome, leaves the set of stored interactions and every field
\* of each of them as they were: the merge is made in memory only.
C25_ChatLeavesStore == [][ChatServed' => store' = store]_vars

C25_Witness ==
  /\ ChatServed
  /\ http[1].answer.status = 200
  /\ HasId(http[1].interaction_id)
  /\ http[1].answer.agent[1].intent = "edit"
  /\ http[1].answer.body.form_data["sentiment"] = "Negative"
  /\ store[http[1].interaction_id[1]].sentiment = "Positive"

\* a chat request that passed the validation of ChatRequest
ChatRouted == ChatServed /\ http[1].answer.status # 422

NamesUnknownId ==
  http[1].interaction_id # <<>> /\ http[1].interaction_id[1] \notin DOMAIN store

\* C27: a chat request that names an interaction_id matching no stored
\* interaction is answered 404 without the agent being invoked; any other is
\* answered after exactly one invocation of the agent, 200 with the agent's
\* form_data and chat_response when process returned success true, and 500
\* without form_data when it returned success false.
C27_ChatOutcome ==
  ChatRouted
    => IF NamesUnknownId
       THEN http[1].answer.status = 404 /\ http[1].answer.agent = <<>>
       ELSE /\ Len(http[1].answer.agent) = 1
            /\ http[1].answer.agent[1].success
                 => /\ http[1].answer.status = 200
                    /\ http[1].answer.body.form_data = http[1].answer.agent[1].form_data
                    /\ http[1].answer.body.chat_response =
                         http[1].answer.agent[1].chat_response
            /\ ~http[1].answer.agent[1].success
                 => /\ http[1].answer.status = 500
                    /\ "form_data" \notin DOMAIN http[1].answer.body

\* process run alone on the inputs and the provider's answers of a history
RECURSIVE Alone(_)
Alone(answers) ==
  IF Len(answers) = 1
  THEN NewContext(answers[1].user_input, answers[1].current_form_data)
  ELSE RunStage(Alone(SubSeq(answers, 1, Len(answers) - 1)),
                answers[Len(answers)].r, answers[Len(answers)].day)

SameAsAlone(c, alone) ==
  /\ c.pc = alone.pc
  /\ c.state = alone.state
  /\ c.exc = alone.exc
  /\ c.ret = alone.ret

====
